---------------------------- MODULE Spec2Model ----------------------------
(***************************************************************************)
(* Approval Automation Scheduler of the Einsatzplaner (src/app.py,         *)
(* src/auto_schedule.py, src/models.py).                                   *)
(*                                                                         *)
(* Instants are integers counting seconds; a calendar day has DayLen       *)
(* seconds and a calendar month MonthLen days (scaled-down stand-ins for   *)
(* 86400 and calendar.monthrange).  Day 0 is a Monday, so that             *)
(* date.weekday() is (day % 7).  The storage layer is modelled as a        *)
(* committed store plus one unit of work (SQLAlchemy session) per thread:  *)
(* a session reads the committed rows and its own pending writes, and its  *)
(* writes reach the committed store at db.session.commit().                *)
(***************************************************************************)
EXTENDS Integers, Sequences, FiniteSets, Bags, TLC

\* ------------------------------------------------------------------ bounds
\* seconds per calendar day, days per calendar month
DayLen == 2
MonthLen == 2
\* the clock runs from StartTime to MaxTime
Horizon == 1
\* "run now" requests served
MaxManualRuns == 1
\* form requests served (shift generation, rule creation)
MaxRequests == 2
\* reference instants of the Recurrence Calculator span the days 0..MaxRefDay
MaxRefDay == 7
\* rows of the shift table and of the leave table an approval loop visits
MaxRecords == 2
\* threads calling _start_automation_worker, and calls made by each
MaxCallers == 3
MaxCalls == 2
StartTime == 2 * DayLen
MaxTime == StartTime + Horizon

\* --------------------------------------------------------------- constants
\* A nullable DateTime/Time column that holds NULL (models.py: nullable=True).
NoInstant == -1
RuleIds == {1, 2}
Procs == {"poller", "manual"}

\* AUTOMATION_TYPE_CHOICES / SCHEDULE_CHOICES
AUTOMATION_TYPE_CHOICES ==
    {"approve_shifts", "approve_leaves", "approve_all", "auto_schedule_position"}
SCHEDULE_CHOICES == {"daily", "weekly", "once"}

\* A summary text is the sequence of its fragments (joined by " · " in the
\* source); the two fixed texts are one-fragment summaries, NULL is <<>>.
NoPendingSummary == <<[part |-> "Keine offenen Vorgaenge gefunden."]>>
NoTargetSummary == <<[part |-> "Keine Zielgruppe hinterlegt."]>>

\* ------------------------------------------------------------- employees
\* The employee table (models.Employee): 1 is a staff member of the group
\* "Aushilfe" with stored default working days, 2 is an administrator.
Employee ==
    [e \in {1, 2} |->
        IF e = 1
        THEN [name |-> "Anna", position |-> "Aushilfe", is_admin |-> FALSE,
              default_daily_hours |-> 4, default_work_days |-> <<0, 1, 3>>]
        ELSE [name |-> "Bernd", position |-> "", is_admin |-> TRUE,
              default_daily_hours |-> 0, default_work_days |-> <<>>]]

EmployeeIds == DOMAIN Employee

\* --------------------------------------------------------- date and time
\* datetime.date() / datetime.time() / datetime.combine / date.weekday()
DateOf(t) == t \div DayLen
TimeOf(t) == t % DayLen
Combine(d, tod) == d * DayLen + tod
Weekday(d) == d % 7
\* (datetime.year, datetime.month) of an instant, as one month index
MonthOf(t) == DateOf(t) \div MonthLen
\* month_start .. month_end of calendar.monthrange
MonthDates(m) == (m * MonthLen) .. (m * MonthLen + MonthLen - 1)

Min(S) == CHOOSE x \in S : \A y \in S : x <= y

\* A set of naturals as the ascending sequence sorted() returns.
RECURSIVE SortedSeq(_)
SortedSeq(S) ==
    IF S = {} THEN <<>> ELSE <<Min(S)>> \o SortedSeq(S \ {Min(S)})

SeqToSet(s) == {s[i] : i \in DOMAIN s}

\* _parse_days_of_week: the stored comma separated text is a sequence of
\* entries; entries that are no integer in 0..6 are dropped, the rest is
\* returned sorted without duplicates.  None and "" give [].
_parse_days_of_week(days) ==
    IF days = <<>>
    THEN <<>>
    ELSE SortedSeq({days[i] : i \in DOMAIN days} \cap (0..6))

\* The weekly scan accepting a candidate that equals the reference.
WeeklyHits_NotStrict(allowed, run_time, reference) ==
    {delta \in 0..7 :
        /\ Combine(DateOf(reference) + delta, run_time) >= reference
        /\ Weekday(DateOf(reference) + delta) \in allowed}

\* The weekly scan starting at the day after the reference's date.
WeeklyHits_SkipsToday(allowed, run_time, reference) ==
    {delta \in 1..7 :
        /\ Combine(DateOf(reference) + delta, run_time) > reference
        /\ Weekday(DateOf(reference) + delta) \in allowed}

\* The weekly scan of _calculate_next_run: range(0, 8) from reference.date().
WeeklyHits(allowed, run_time, reference) ==
    {delta \in 0..7 :
        /\ Combine(DateOf(reference) + delta, run_time) > reference
        /\ Weekday(DateOf(reference) + delta) \in allowed}

\* The fallback after the scan: ((day - weekday) % 7) or 7.
WeeklyFallback(allowed, run_time, reference) ==
    LET offsets == {IF (day - Weekday(DateOf(reference))) % 7 = 0 THEN 7
                    ELSE (day - Weekday(DateOf(reference))) % 7 : day \in allowed}
    IN Combine(DateOf(reference) + Min(offsets), run_time)

\* The daily branch advancing only a candidate strictly before the reference.
DailyCandidate_NotStrict(run_time_value, reference) ==
    LET candidate == Combine(DateOf(reference), run_time_value)
    IN IF candidate < reference THEN candidate + DayLen ELSE candidate

\* The daily branch: reference's date at run_time, a day later when that is
\* not strictly after the reference.
DailyCandidate(run_time_value, reference) ==
    LET candidate == Combine(DateOf(reference), run_time_value)
    IN IF candidate <= reference THEN candidate + DayLen ELSE candidate

_calculate_next_run(schedule_type, run_time_value, days, reference) ==
    IF schedule_type = "once" THEN NoInstant
    ELSE IF run_time_value = NoInstant THEN NoInstant
    ELSE IF schedule_type = "daily" THEN
        DailyCandidate(run_time_value, reference)
    ELSE IF schedule_type = "weekly" THEN
        LET parsed == SeqToSet(_parse_days_of_week(days))
            allowed == IF parsed = {} THEN 0..6 ELSE parsed
            hits == WeeklyHits(allowed, run_time_value, reference)
        IN IF hits # {}
           THEN Combine(DateOf(reference) + Min(hits), run_time_value)
           ELSE WeeklyFallback(allowed, run_time_value, reference)
    ELSE NoInstant

\* ------------------------------------------------------------------ state
VARIABLES
    now,            \* the wall clock, datetime.now()
    rules,          \* table approval_automation: id -> row (committed)
    shifts,         \* table shift: sequence of rows (committed)
    leaves,         \* table leave: sequence of rows (committed)
    notifications,  \* table notification: bag of rows (committed)
    sess,           \* per thread: position in its handler and its session
    fin,            \* per thread: what its last committed run wrote
    flash,          \* the last response of the toggle handler
    manual_runs,    \* number of "run now" requests served
    staff,          \* column employee.position: employee id -> staff group
    calc,           \* a call of the Recurrence Calculator: arguments, result
    log,            \* responses of the form handlers, newest last
    req,            \* the rule-creation form being served, if any
    names,          \* employee id -> name (Employee.name)
    worker          \* app._automation_worker_started, the worker threads
                    \* started, and the calls of _start_automation_worker

vars ==
    <<now, rules, shifts, leaves, notifications, sess, fin, flash, manual_runs,
      staff, calc, log, req, names, worker>>

\* The row create_automated_approval stores for a valid form at instant t.
NewRule(automation_type, schedule_type, run_time_value, days_value, once_at, target_position, t) ==
    [automation_type |-> automation_type,
     schedule_type |-> schedule_type,
     run_time |-> run_time_value,
     days_of_week |-> days_value,
     target_position |->
        IF automation_type = "auto_schedule_position" THEN target_position ELSE "",
     next_run |->
        IF schedule_type = "once" THEN once_at
        ELSE _calculate_next_run(schedule_type, run_time_value, days_value, t + 1),
     last_run |-> NoInstant,
     last_run_summary |-> <<>>,
     is_active |-> TRUE]

\* The forms the stored rules were created from (at instant 0).
FormDays(schedule_type) == IF schedule_type = "weekly" THEN <<1, 3>> ELSE <<>>

InitRule(automation_type, schedule_type) ==
    NewRule(automation_type, schedule_type, 0, FormDays(schedule_type), 1,
            "Aushilfe", 0)

\* Pending requests in the store at start: two unapproved shifts and one
\* unapproved leave of employee 1, each with its notice to the administrator.
InitShifts ==
    <<[employee_id |-> 1, date |-> 1, shift_type |-> "Frueh", approved |-> FALSE],
      [employee_id |-> 1, date |-> 3, shift_type |-> "Spaet", approved |-> FALSE]>>

InitLeaves ==
    <<[employee_id |-> 1, leave_type |-> "Urlaub", start_date |-> 0,
       end_date |-> 1, approved |-> FALSE]>>

\* ---------------------------------------------------------- notifications
Link(endpoint) == [endpoint |-> endpoint]
ScheduleLink(d) == [endpoint |-> "schedule", month |-> d \div MonthLen]

\* _build_shift_request_message: "<name> hat einen Einsatz am <date> eingereicht."
_build_shift_request_message(employee_name, shift_date) ==
    [text |-> "hat einen Einsatz eingereicht", employee |-> employee_name,
     date |-> shift_date]

\* The date range of a leave: one date if start = end, else "<start> bis <end>".
DateRange(start_date, end_date) ==
    IF start_date = end_date THEN <<start_date>> ELSE <<start_date, end_date>>

\* _build_leave_request_message: "<name> hat <type> fuer <range> beantragt."
_build_leave_request_message(employee_name, leave_type, start_date, end_date) ==
    [text |-> "beantragt", employee |-> employee_name, leave_type |-> leave_type,
     date_range |-> DateRange(start_date, end_date)]

\* "Dein Einsatz am <date> wurde automatisch genehmigt."
ShiftApprovedMessage(shift_date) ==
    [text |-> "Dein Einsatz wurde automatisch genehmigt", date |-> shift_date]

\* "Dein <type>-Antrag fuer <range> wurde automatisch genehmigt."
LeaveApprovedMessage(leave_type, start_date, end_date) ==
    [text |-> "Dein Antrag wurde automatisch genehmigt", leave_type |-> leave_type,
     date_range |-> DateRange(start_date, end_date)]

\* "Automation '<name>' hat <summary>."  (a rule is named by its id)
AdminMessage(rule_id, summary_text) ==
    [text |-> "Automation hat", automation |-> rule_id, summary |-> summary_text]

\* _create_notification: the row added for a recipient (none without one).
_create_notification(recipient_id, message, link) ==
    IF recipient_id = 0 THEN EmptyBag
    ELSE SetToBag({[recipient_id |-> recipient_id, message |-> message, link |-> link]})

\* notify_employee
notify_employee(employee_id, message, link) ==
    IF employee_id = 0 THEN EmptyBag ELSE _create_notification(employee_id, message, link)

\* _clear_request_notifications: the rows left after the DELETE of every row
\* whose (message, link) is in `cleared`.
_clear_request_notifications(table, cleared) ==
    LET kept == {n \in DOMAIN table :
                    [message |-> n.message, link |-> n.link] \notin cleared}
    IN [n \in kept |-> table[n]]

Admins == {e \in EmployeeIds : Employee[e].is_admin}

\* notify_admins_of_request, at the submission of a request.
RECURSIVE NotifyEach(_, _, _)
NotifyEach(recipients, message, link) ==
    IF recipients = {} THEN EmptyBag
    ELSE LET e == Min(recipients)
         IN _create_notification(e, message, link)
                (+) NotifyEach(recipients \ {e}, message, link)

InitNotifications ==
    NotifyEach(Admins, _build_shift_request_message(Employee[1].name, 1), Link("shift_requests_overview"))
    (+) NotifyEach(Admins, _build_shift_request_message(Employee[1].name, 3), Link("shift_requests_overview"))
    (+) NotifyEach(Admins, _build_leave_request_message(Employee[1].name, "Urlaub", 0, 1), Link("leave_requests"))

\* -------------------------------------------------------- action executor
\* PendingShifts without the filter on approved.
PendingShifts_NoFilter(table) == DOMAIN table

\* Shift.query.filter_by(approved=False).all() / Leave.query.filter_by(...)
PendingShifts(table) == {i \in DOMAIN table : ~table[i].approved}
PendingLeaves(table) == {i \in DOMAIN table : ~table[i].approved}

\* The notices the approval loops clear, and the notifications they create.
ShiftsCleared(table, ids) ==
    {[message |-> _build_shift_request_message(names[table[i].employee_id],
                                               table[i].date),
      link |-> Link("shift_requests_overview")] : i \in ids}

\* LeavesCleared that also clears the open shift request notices.
LeavesCleared_AlsoShiftNotices(table, ids) ==
    {[message |-> _build_leave_request_message(names[table[i].employee_id],
                      table[i].leave_type, table[i].start_date, table[i].end_date),
      link |-> Link("leave_requests")] : i \in ids}
    \cup {[message |-> n.message, link |-> n.link] :
            n \in {m \in DOMAIN notifications :
                        ids # {} /\ m.link = Link("shift_requests_overview")}}

LeavesCleared(table, ids) ==
    {[message |-> _build_leave_request_message(names[table[i].employee_id],
                      table[i].leave_type, table[i].start_date, table[i].end_date),
      link |-> Link("leave_requests")] : i \in ids}

RECURSIVE ShiftsNotified(_, _)
ShiftsNotified(table, ids) ==
    IF ids = {} THEN EmptyBag
    ELSE LET i == Min(ids)
         IN notify_employee(table[i].employee_id,
                            ShiftApprovedMessage(table[i].date),
                            ScheduleLink(table[i].date))
                (+) ShiftsNotified(table, ids \ {i})

RECURSIVE LeavesNotified(_, _)
LeavesNotified(table, ids) ==
    IF ids = {} THEN EmptyBag
    ELSE LET i == Min(ids)
         IN notify_employee(table[i].employee_id,
                            LeaveApprovedMessage(table[i].leave_type,
                                table[i].start_date, table[i].end_date),
                            Link("leave_form"))
                (+) LeavesNotified(table, ids \ {i})

\* summary_parts of _execute_automation; schedule is <<>> when no month label
\* was set, else <<[created, skipped, position, month]>>.
\* The fragments without one for a generation of 0 created, 0 skipped.
SummaryParts_NoEmptySchedule(approved_shifts, approved_leaves, schedule) ==
    (IF approved_shifts # 0
        THEN <<[part |-> "Einsaetze freigegeben", n |-> approved_shifts]>> ELSE <<>>)
    \o (IF approved_leaves # 0
        THEN <<[part |-> "Abwesenheiten genehmigt", n |-> approved_leaves]>> ELSE <<>>)
    \o (IF schedule # <<>> /\ (schedule[1].created # 0 \/ schedule[1].skipped # 0)
        THEN <<[part |->
                    IF schedule[1].skipped # 0
                    THEN "Schichten erstellt, uebersprungen"
                    ELSE "Schichten erstellt",
                 created |-> schedule[1].created,
                 skipped |-> schedule[1].skipped,
                 position |-> schedule[1].position,
                 month |-> schedule[1].month]>>
        ELSE <<>>)

\* The fragments of the summary, in the order the executor appends them.
SummaryParts(approved_shifts, approved_leaves, schedule) ==
    (IF approved_shifts # 0
        THEN <<[part |-> "Einsaetze freigegeben", n |-> approved_shifts]>> ELSE <<>>)
    \o (IF approved_leaves # 0
        THEN <<[part |-> "Abwesenheiten genehmigt", n |-> approved_leaves]>> ELSE <<>>)
    \o (IF schedule # <<>>
        THEN <<[part |->
                    IF schedule[1].created = 0 /\ schedule[1].skipped = 0
                    THEN "Keine Schichten erstellt"
                    ELSE IF schedule[1].skipped # 0
                    THEN "Schichten erstellt, uebersprungen"
                    ELSE "Schichten erstellt",
                 created |-> schedule[1].created,
                 skipped |-> schedule[1].skipped,
                 position |-> schedule[1].position,
                 month |-> schedule[1].month]>>
        ELSE <<>>)

SummaryText(summary_parts) ==
    IF summary_parts # <<>> THEN summary_parts ELSE NoPendingSummary

\* The notification to every administrator when summary_parts is not empty.
AdminNotifications(rule_id, summary_parts) ==
    IF summary_parts # <<>>
    THEN NotifyEach(Admins, AdminMessage(rule_id, summary_parts), Link("system_settings"))
    ELSE EmptyBag

\* ------------------------------------------------------- shift generator
\* create_default_shifts_for_employee_position: the working days of an
\* employee of the group ("Vollzeit": Monday to Friday, else the stored
\* default_work_days; no days when the defaults are missing).
WorkDays(position, e) ==
    IF position = "Vollzeit" THEN {0, 1, 2, 3, 4}
    ELSE IF Employee[e].default_daily_hours = 0 \/ Employee[e].default_work_days = <<>>
    THEN {}
    ELSE SeqToSet(Employee[e].default_work_days)

\* The (employee, date) pairs the two nested loops visit, in their order.
RECURSIVE SlotsOf(_, _, _)
SlotsOf(position, employees, month) ==
    IF employees = {} THEN <<>>
    ELSE LET e == Min(employees)
             ds == SortedSeq({d \in MonthDates(month) :
                                Weekday(d) \in WorkDays(position, e)})
         IN [i \in 1..Len(ds) |-> [employee_id |-> e, date |-> ds[i]]]
                \o SlotsOf(position, employees \ {e}, month)

\* Employee.query.filter_by(position=position).all()
GroupEmployees(position) == {e \in DOMAIN staff : staff[e] = position}

\* The loops over the employees of the group and the dates of the month.
GeneratorSlots(position, month) ==
    SlotsOf(position, GroupEmployees(position), month)

\* ExistingShift looking for any shift of the employee, whatever its date.
ExistingShift_IgnoresDate(committed, added, slot) ==
    \E i \in DOMAIN (committed \o added) :
        (committed \o added)[i].employee_id = slot.employee_id

\* Shift.query.filter_by(employee_id=..., date=...).first(): the session
\* sees the committed rows and the rows it has added itself.
ExistingShift(committed, added, slot) ==
    \E i \in DOMAIN (committed \o added) :
        /\ (committed \o added)[i].employee_id = slot.employee_id
        /\ (committed \o added)[i].date = slot.date

\* The row the generator adds for a free slot.
GeneratedShift(position, slot) ==
    [employee_id |-> slot.employee_id, date |-> slot.date,
     shift_type |-> "Standard (" \o position \o ")", approved |-> TRUE]

\* --------------------------------------------------------------- sessions
NoObj == [id |-> 0]
NoFin == [rid |-> 0]
\* No call of the Recurrence Calculator is under way.
NoCalc == [done |-> FALSE]
\* No record of the run's approval loops has raised.
NoRecord == [kind |-> "", id |-> 0]
\* The threads that may call _start_automation_worker on the application.
Callers == 1 .. MaxCallers
\* create_app has returned: the flag is set, one worker thread runs.
RunningWorker ==
    [started |-> TRUE, threads |-> 1,
     callers |-> [c \in Callers |-> [pc |-> "idle", calls |-> 0]]]
\* No rule-creation form is being served.
NoReq == [form |-> "none"]

IdleSess ==
    [pc |-> "idle", due |-> <<>>, expired |-> FALSE, rid |-> 0, obj |-> NoObj,
     shift_ids |-> {}, leave_ids |-> {}, new_shifts |-> <<>>, cleared |-> {},
     created |-> EmptyBag, slots |-> <<>>, created_count |-> 0,
     skipped_count |-> 0, month |-> 0, summary |-> <<>>,
     rows_committed |-> 0, queried |-> {}, passed |-> {},
     position |-> "", dry_run |-> FALSE, employees_found |-> 0,
     failed_on |-> NoRecord, stamped_at |-> NoInstant]

\* The session state at the call of _run_and_schedule_automation(obj).
StartRun(s, r, o) ==
    [s EXCEPT !.pc = "exec", !.rid = r, !.obj = o,
              !.shift_ids = {}, !.leave_ids = {}, !.new_shifts = <<>>,
              !.cleared = {}, !.created = EmptyBag, !.slots = <<>>,
              !.created_count = 0, !.skipped_count = 0, !.month = 0,
              !.summary = <<>>, !.rows_committed = 0,
              !.position = "", !.dry_run = FALSE, !.employees_found = 0,
              !.failed_on = NoRecord, !.stamped_at = NoInstant]

\* The session state once a run is over (committed or rolled back).
EndRun(s, pc) ==
    [s EXCEPT !.pc = pc, !.expired = TRUE, !.rid = 0, !.obj = NoObj,
              !.shift_ids = {}, !.leave_ids = {}, !.new_shifts = <<>>,
              !.cleared = {}, !.created = EmptyBag, !.slots = <<>>,
              !.created_count = 0, !.skipped_count = 0, !.month = 0,
              !.summary = <<>>, !.position = "", !.dry_run = FALSE,
              !.employees_found = 0, !.failed_on = NoRecord,
              !.stamped_at = NoInstant]

Recurring(rule) == rule.schedule_type # "once"

\* ------------------------------------------------------------------- init
\* The store at start holds the rules created at instant 0, the pending
\* requests and their notices; every thread is idle.
InitWith(rule_table) ==
    /\ now = StartTime
    /\ rules = rule_table
    /\ shifts = InitShifts
    /\ leaves = InitLeaves
    /\ notifications = InitNotifications
    /\ sess = [p \in Procs |-> IdleSess]
    /\ fin = [p \in Procs |-> NoFin]
    /\ flash = [rid |-> 0, status |-> "", warning |-> FALSE]
    /\ manual_runs = 0
    /\ staff = [e \in EmployeeIds |-> Employee[e].position]
    /\ calc = NoCalc
    /\ log = <<>>
    /\ req = NoReq
    /\ names = [e \in EmployeeIds |-> Employee[e].name]
    /\ worker = RunningWorker

\* One rule of any automation type and schedule type.
Init ==
    \E at1 \in AUTOMATION_TYPE_CHOICES, st1 \in SCHEDULE_CHOICES :
        InitWith(1 :> InitRule(at1, st1))

\* Two rules that are due in the same cycle.
InitCycle ==
    \E at1 \in AUTOMATION_TYPE_CHOICES :
        InitWith((1 :> InitRule(at1, "daily"))
                    @@ (2 :> InitRule("approve_leaves", "daily")))

\* The clock advances by one second.
Tick ==
    /\ now < MaxTime
    /\ now' = now + 1
    /\ UNCHANGED <<rules, shifts, leaves, notifications, sess, fin, flash, manual_runs, staff, calc, log, req, names, worker>>

\* ----------------------------------------------------------- the executor
\* _execute_automation for approve_shifts / approve_leaves / approve_all:
\* the session after the two approval loops and the summary composition.
ExecuteApprovals(s, shift_table, leave_table) ==
    LET sids == IF s.obj.automation_type \in {"approve_shifts", "approve_all"}
                THEN PendingShifts(shift_table) ELSE {}
        lids == IF s.obj.automation_type \in {"approve_leaves", "approve_all"}
                THEN PendingLeaves(leave_table) ELSE {}
        parts == SummaryParts(Cardinality(sids), Cardinality(lids), <<>>)
    IN [s EXCEPT !.pc = "stamp",
                 !.shift_ids = sids,
                 !.leave_ids = lids,
                 !.cleared = ShiftsCleared(shift_table, sids)
                                \cup LeavesCleared(leave_table, lids),
                 !.created = ShiftsNotified(shift_table, sids)
                                (+) LeavesNotified(leave_table, lids)
                                (+) AdminNotifications(s.rid, parts),
                 !.summary = SummaryText(parts)]

\* _execute_automation for auto_schedule_position, up to the call of the
\* generator: the early return without a target group, else the target
\* month (of next_run, or of the current instant) and the generator's loops.
ExecuteSchedule(s, t) ==
    IF s.obj.target_position = ""
    THEN [s EXCEPT !.pc = "stamp", !.summary = NoTargetSummary]
    ELSE LET reference_dt == IF s.obj.next_run # NoInstant THEN s.obj.next_run ELSE t
         IN [s EXCEPT !.pc = "gen",
                      !.position = s.obj.target_position,
                      !.employees_found =
                            Cardinality(GroupEmployees(s.obj.target_position)),
                      !.month = MonthOf(reference_dt),
                      !.slots = GeneratorSlots(s.obj.target_position,
                                               MonthOf(reference_dt))]

Execute(p) ==
    /\ sess[p].pc = "exec"
    /\ sess' = [sess EXCEPT ![p] =
                    IF sess[p].obj.automation_type = "auto_schedule_position"
                    THEN ExecuteSchedule(sess[p], now)
                    ELSE ExecuteApprovals(sess[p], shifts, leaves)]
    /\ UNCHANGED <<now, rules, shifts, leaves, notifications, fin, flash, manual_runs, staff, calc, log, req, names, worker>>

\* One pass of the generator's inner loop: look for a shift of the employee
\* on the date, add one when there is none (only count it under dry_run),
\* else count the day as skipped.
GeneratorVisit(s, committed) ==
    IF ExistingShift(committed, s.new_shifts, Head(s.slots))
    THEN [s EXCEPT !.slots = Tail(@), !.skipped_count = @ + 1]
    ELSE [s EXCEPT !.slots = Tail(@), !.created_count = @ + 1,
                   !.new_shifts = IF s.dry_run THEN @
                                  ELSE Append(@, GeneratedShift(s.position,
                                                                Head(s.slots)))]

GenStep(p) ==
    /\ sess[p].pc = "gen"
    /\ sess[p].slots # <<>>
    /\ sess' = [sess EXCEPT ![p] = GeneratorVisit(sess[p], shifts)]
    /\ UNCHANGED <<now, rules, shifts, leaves, notifications, fin, flash, manual_runs, staff, calc, log, req, names, worker>>

\* The generator's db.session.commit() and the rest of _execute_automation:
\* the commit expires the rule object, so building the summary reloads it
\* (ObjectDeletedError when its row is gone).
AfterGenerator(s, rule_table) ==
    IF s.rid \notin DOMAIN rule_table
    THEN [s EXCEPT !.pc = "failed", !.new_shifts = <<>>,
                   !.rows_committed = Len(s.new_shifts)]
    ELSE LET parts == SummaryParts(0, 0,
                        <<[created |-> s.created_count, skipped |-> s.skipped_count,
                           position |-> rule_table[s.rid].target_position,
                           month |-> s.month]>>)
         IN [s EXCEPT !.pc = "stamp", !.obj = rule_table[s.rid],
                      !.new_shifts = <<>>,
                      !.rows_committed = Len(s.new_shifts),
                      !.created = AdminNotifications(s.rid, parts),
                      !.summary = SummaryText(parts)]

GenCommit(p) ==
    /\ sess[p].pc = "gen"
    /\ sess[p].slots = <<>>
    /\ shifts' = shifts \o sess[p].new_shifts
    /\ sess' = [sess EXCEPT ![p] = AfterGenerator(sess[p], rules)]
    /\ UNCHANGED <<now, rules, leaves, notifications, fin, flash, manual_runs, staff, calc, log, req, names, worker>>

\* ------------------------------------------------------- the orchestrator
\* Stamped with next_run advanced by one day from its old value instead of
\* recomputed from the instant of the run.
Stamped_AdvanceOldNextRun(o, summary, t) ==
    [o EXCEPT !.last_run = t,
              !.last_run_summary = summary,
              !.is_active = IF o.schedule_type = "once" THEN FALSE ELSE @,
              !.next_run = IF o.schedule_type = "once" THEN NoInstant
                           ELSE o.next_run + DayLen]

\* Stamped with a recurring rule switched on by its run.
Stamped_ActivatesRecurring(o, summary, t) ==
    [o EXCEPT !.last_run = t,
              !.last_run_summary = summary,
              !.is_active = o.schedule_type # "once",
              !.next_run = IF o.schedule_type = "once" THEN NoInstant
                           ELSE _calculate_next_run(o.schedule_type, o.run_time,
                                                    o.days_of_week, t + 1)]

\* _run_and_schedule_automation after the executor returned: the rule
\* object with last_run, last_run_summary, is_active and next_run assigned.
Stamped(o, summary, t) ==
    [o EXCEPT !.last_run = t,
              !.last_run_summary = summary,
              !.is_active = IF o.schedule_type = "once" THEN FALSE ELSE @,
              !.next_run = IF o.schedule_type = "once" THEN NoInstant
                           ELSE _calculate_next_run(o.schedule_type, o.run_time,
                                                    o.days_of_week, t + 1)]

\* WriteRule with next_run only ever moved forward (a merge with the stored
\* value in place of the plain assignment).
WriteRule_KeepLaterNextRun(row, loaded, o) ==
    [row EXCEPT !.last_run = o.last_run,
                !.last_run_summary = IF o.last_run_summary # loaded.last_run_summary
                                     THEN o.last_run_summary ELSE @,
                !.next_run = IF row.next_run > o.next_run THEN row.next_run
                             ELSE o.next_run,
                !.is_active = IF o.is_active # loaded.is_active THEN o.is_active ELSE @]

\* The UPDATE of the rule's row at db.session.commit(): the unit of work
\* puts a column into the UPDATE only when the value assigned differs from
\* the value the session had loaded; the other columns of the row keep what
\* the store holds. last_run is a fresh reading of the clock and differs
\* from every value loaded before.
WriteRule(row, loaded, o) ==
    [row EXCEPT !.last_run = o.last_run,
                !.last_run_summary = IF o.last_run_summary # loaded.last_run_summary
                                     THEN o.last_run_summary ELSE @,
                !.next_run = IF o.next_run # loaded.next_run THEN o.next_run ELSE @,
                !.is_active = IF o.is_active # loaded.is_active THEN o.is_active ELSE @]

\* The UPDATEs of the approved records.
Approve(table, ids) ==
    [i \in DOMAIN table |->
        IF i \in ids THEN [table[i] EXCEPT !.approved = TRUE] ELSE table[i]]

\* The assignments of _run_and_schedule_automation with `t` the reading of
\* the clock, and its db.session.commit().
CommitRun(p, t) ==
    /\ IF sess[p].rid \notin DOMAIN rules
       THEN \* the UPDATE matches no row: StaleDataError
            /\ sess' = [sess EXCEPT ![p].pc = "failed"]
            /\ UNCHANGED <<rules, shifts, leaves, notifications, fin>>
       ELSE LET s == sess[p]
                o == Stamped(s.obj, s.summary, t)
            IN /\ rules' = [rules EXCEPT ![s.rid] = WriteRule(@, s.obj, o)]
               /\ shifts' = Approve(shifts, s.shift_ids)
               /\ leaves' = Approve(leaves, s.leave_ids)
               /\ notifications' =
                      _clear_request_notifications(notifications, s.cleared)
                          (+) s.created
               /\ fin' = [fin EXCEPT ![p] =
                      [rid |-> s.rid, automation_type |-> s.obj.automation_type,
                       last_run |-> o.last_run, next_run |-> o.next_run,
                       summary |-> s.summary,
                       prev_summary |-> s.obj.last_run_summary,
                       prev_next_run |-> s.obj.next_run,
                       shift_ids |-> s.shift_ids, leave_ids |-> s.leave_ids]]
               /\ sess' = [sess EXCEPT ![p] =
                      EndRun(s, IF p = "poller" \/ s.passed # {}
                                THEN "loop" ELSE "idle")]
    /\ UNCHANGED <<now, flash, manual_runs, staff, calc, log, req, names, worker>>

\* The clock reading, the assignments and the commit taken as one step.
StampCommit(p) ==
    /\ sess[p].pc = "stamp"
    /\ CommitRun(p, now)

\* The same in two steps: `now = datetime.now()` and the assignments, then
\* db.session.commit(); other threads run in between.
Stamp(p) ==
    /\ sess[p].pc = "stamp"
    /\ sess' = [sess EXCEPT ![p].pc = "commit", ![p].stamped_at = now]
    /\ UNCHANGED <<now, rules, shifts, leaves, notifications, fin, flash, manual_runs, staff, calc, log, req, names, worker>>

Commit(p) ==
    /\ sess[p].pc = "commit"
    /\ CommitRun(p, sess[p].stamped_at)

\* A failure that comes after the rule's columns have reached the store.
Fail_WritesRule(p) ==
    /\ sess[p].pc \in {"exec", "gen", "stamp"}
    /\ sess' = [sess EXCEPT ![p].pc = "failed"]
    /\ rules' = IF sess[p].rid \in DOMAIN rules
                THEN [rules EXCEPT ![sess[p].rid] =
                        WriteRule(@, sess[p].obj,
                                  Stamped(sess[p].obj, sess[p].summary, now))]
                ELSE rules
    /\ UNCHANGED <<now, shifts, leaves, notifications, fin, flash, manual_runs, staff, calc, log, req, names, worker>>

\* An exception raised inside _run_and_schedule_automation.
Fail(p) ==
    /\ sess[p].pc \in {"exec", "gen", "stamp"}
    /\ sess' = [sess EXCEPT ![p].pc = "failed"]
    /\ UNCHANGED <<now, rules, shifts, leaves, notifications, fin, flash, manual_runs, staff, calc, log, req, names, worker>>

\* An exception raised inside an approval loop while record i of the query
\* result is processed (its row was deleted meanwhile, its employee is
\* gone): there is no handler inside the loops, the exception leaves
\* _execute_automation. The session keeps the query results of the run.
FailRecord(p, kind, i) ==
    /\ sess[p].pc = "exec"
    /\ LET sids == IF sess[p].obj.automation_type \in {"approve_shifts", "approve_all"}
                   THEN PendingShifts(shifts) ELSE {}
           lids == IF sess[p].obj.automation_type \in {"approve_leaves", "approve_all"}
                   THEN PendingLeaves(leaves) ELSE {}
       IN /\ \/ kind = "shift" /\ i \in sids
             \/ kind = "leave" /\ i \in lids
          /\ sess' = [sess EXCEPT ![p] =
                        [@ EXCEPT !.pc = "failed",
                                  !.failed_on = [kind |-> kind, id |-> i],
                                  !.shift_ids = sids,
                                  !.leave_ids = IF kind = "leave" THEN lids ELSE {}]]
    /\ UNCHANGED <<now, rules, shifts, leaves, notifications, fin, flash, manual_runs, staff, calc, log, req, names, worker>>

\* ------------------------------------------------------------- the poller
\* The due-query without the filter on is_active.
DueAutomations_IgnoresActive(rule_table, t) ==
    SortedSeq({r \in DOMAIN rule_table :
                /\ rule_table[r].next_run # NoInstant
                /\ rule_table[r].next_run <= t})

\* The due-query of _process_due_automations at instant t, in row order.
DueAutomations(rule_table, t) ==
    SortedSeq({r \in DOMAIN rule_table :
                /\ rule_table[r].is_active
                /\ rule_table[r].next_run # NoInstant
                /\ rule_table[r].next_run <= t})

\* _worker wakes up and _process_due_automations loads the due rules.
PollQuery ==
    /\ sess["poller"].pc = "idle"
    /\ LET due == DueAutomations(rules, now)
       IN sess' = [sess EXCEPT !["poller"] =
                    [@ EXCEPT !.pc = "loop", !.due = due, !.expired = FALSE,
                              !.obj = IF due # <<>> THEN rules[Head(due)] ELSE NoObj,
                              !.queried = SeqToSet(due), !.passed = {}]]
    /\ UNCHANGED <<now, rules, shifts, leaves, notifications, fin, flash, manual_runs, staff, calc, log, req, names, worker>>

\* The loop passes the next due rule to _run_and_schedule_automation.  The
\* objects of the session are expired by every commit and rollback, so
\* from the second rule on the first attribute access reloads the row
\* (ObjectDeletedError when it is gone).
PassToOrchestrator(s, rule_table) ==
    LET r == Head(s.due)
        gone == s.expired /\ r \notin DOMAIN rule_table
        o == IF ~s.expired THEN s.obj
             ELSE IF gone THEN NoObj ELSE rule_table[r]
    IN [StartRun(s, r, o) EXCEPT !.pc = IF gone THEN "failed" ELSE "exec",
                                 !.due = Tail(s.due),
                                 !.passed = s.passed \cup {r}]

PollNext ==
    /\ sess["poller"].pc = "loop"
    /\ sess["poller"].due # <<>>
    /\ sess' = [sess EXCEPT !["poller"] = PassToOrchestrator(@, rules)]
    /\ UNCHANGED <<now, rules, shifts, leaves, notifications, fin, flash, manual_runs, staff, calc, log, req, names, worker>>

\* The loop is through; the worker sleeps until its next cycle.
PollDone ==
    /\ sess["poller"].pc = "loop"
    /\ sess["poller"].due = <<>>
    /\ sess' = [sess EXCEPT !["poller"] = [@ EXCEPT !.pc = "idle", !.obj = NoObj]]
    /\ UNCHANGED <<now, rules, shifts, leaves, notifications, fin, flash, manual_runs, staff, calc, log, req, names, worker>>

\* The except branch of the loop: db.session.rollback(), then the print of
\* automation.name, which reloads the expired object; when the row is gone
\* that raises out of the handler, the loop and the worker's while loop.
AfterRollback(s, rule_table) ==
    EndRun(s, IF s.rid \in DOMAIN rule_table THEN "loop" ELSE "dead")

PollerRollback ==
    /\ sess["poller"].pc = "failed"
    /\ sess' = [sess EXCEPT !["poller"] = AfterRollback(@, rules)]
    /\ UNCHANGED <<now, rules, shifts, leaves, notifications, fin, flash, manual_runs, staff, calc, log, req, names, worker>>

\* ------------------------------------------------------ the manual trigger
\* run_automated_approval: get_or_404, then _run_and_schedule_automation.
ManualStart(r) ==
    /\ sess["manual"].pc = "idle"
    /\ manual_runs < MaxManualRuns
    /\ r \in DOMAIN rules
    /\ sess' = [sess EXCEPT !["manual"] = StartRun(@, r, rules[r])]
    /\ manual_runs' = manual_runs + 1
    /\ UNCHANGED <<now, rules, shifts, leaves, notifications, fin, flash, staff, calc, log, req, names, worker>>

\* The exception leaves the request handler: the request fails and its
\* session is discarded.
ManualAbort ==
    /\ sess["manual"].pc = "failed"
    /\ sess["manual"].passed = {}
    /\ sess' = [sess EXCEPT !["manual"] = EndRun(@, "idle")]
    /\ UNCHANGED <<now, rules, shifts, leaves, notifications, fin, flash, manual_runs, staff, calc, log, req, names, worker>>

\* ------------------------------------------------- the start of the worker
\* _start_automation_worker, line by line. The test of the flag: a caller
\* that finds it set returns.
CallCheck(c) ==
    /\ worker.callers[c].pc = "idle"
    /\ worker.callers[c].calls < MaxCalls
    /\ worker' = IF worker.started
                 THEN [worker EXCEPT !.callers[c].calls = @ + 1]
                 ELSE [worker EXCEPT !.callers[c].pc = "checked"]
    /\ UNCHANGED <<now, rules, shifts, leaves, notifications, sess, fin, flash, manual_runs, staff, calc, log, req, names>>

\* threading.Thread(target=_worker, ...); thread.start()
CallStart(c) ==
    /\ worker.callers[c].pc = "checked"
    /\ worker' = [worker EXCEPT !.callers[c].pc = "started", !.threads = @ + 1]
    /\ UNCHANGED <<now, rules, shifts, leaves, notifications, sess, fin, flash, manual_runs, staff, calc, log, req, names>>

\* app._automation_worker_started = True, and the return.
CallMark(c) ==
    /\ worker.callers[c].pc = "started"
    /\ worker' = [worker EXCEPT !.callers[c].pc = "idle",
                                !.callers[c].calls = @ + 1,
                                !.started = TRUE]
    /\ UNCHANGED <<now, rules, shifts, leaves, notifications, sess, fin, flash, manual_runs, staff, calc, log, req, names>>

\* ------------------------------------------------------ the overview page
\* automated_approvals: the handler of the overview page starts with a call
\* of _process_due_automations in the request thread: the due-query ...
PageQuery ==
    /\ sess["manual"].pc = "idle"
    /\ Len(log) < MaxRequests
    /\ LET due == DueAutomations(rules, now)
       IN sess' = [sess EXCEPT !["manual"] =
                    [IdleSess EXCEPT !.pc = "loop", !.due = due,
                              !.obj = IF due # <<>> THEN rules[Head(due)] ELSE NoObj,
                              !.queried = SeqToSet(due)]]
    /\ UNCHANGED <<now, rules, shifts, leaves, notifications, fin, flash, manual_runs, staff, calc, log, req, names, worker>>

\* ... the loop over the due rules ...
PageNext ==
    /\ sess["manual"].pc = "loop"
    /\ sess["manual"].due # <<>>
    /\ sess' = [sess EXCEPT !["manual"] = PassToOrchestrator(@, rules)]
    /\ UNCHANGED <<now, rules, shifts, leaves, notifications, fin, flash, manual_runs, staff, calc, log, req, names, worker>>

\* ... its except branch (as in the worker; an exception that leaves the
\* handler ends the request) ...
PageRollback ==
    /\ sess["manual"].pc = "failed"
    /\ sess["manual"].passed # {}
    /\ sess' = [sess EXCEPT !["manual"] =
                    IF sess["manual"].rid \in DOMAIN rules
                    THEN EndRun(@, "loop") ELSE IdleSess]
    /\ log' = IF sess["manual"].rid \in DOMAIN rules THEN log
              ELSE Append(log, [handler |-> "automated_approvals", status |-> 500])
    /\ UNCHANGED <<now, rules, shifts, leaves, notifications, fin, flash, manual_runs, staff, calc, req, names, worker>>

\* ... and, the loop through, the page is rendered and the request ends.
PageDone ==
    /\ sess["manual"].pc = "loop"
    /\ sess["manual"].due = <<>>
    /\ sess' = [sess EXCEPT !["manual"] = IdleSess]
    /\ log' = Append(log, [handler |-> "automated_approvals", status |-> 200])
    /\ UNCHANGED <<now, rules, shifts, leaves, notifications, fin, flash, manual_runs, staff, calc, req, names, worker>>

\* ------------------------------------------------------- toggle and delete
\* Toggled with next_run recomputed at every reactivation.
Toggled_AlwaysRecompute(row, t) ==
    IF ~row.is_active
    THEN IF row.schedule_type = "once" /\ row.next_run = NoInstant
         THEN [row EXCEPT !.is_active = FALSE]
         ELSE [row EXCEPT !.is_active = TRUE,
                          !.next_run = _calculate_next_run(row.schedule_type,
                                          row.run_time, row.days_of_week, t + 1)]
    ELSE [row EXCEPT !.is_active = FALSE]

\* Toggled without the rejection of a completed once rule.
Toggled_NoRejection(row, t) ==
    IF ~row.is_active
    THEN IF row.next_run = NoInstant
         THEN [row EXCEPT !.is_active = TRUE,
                          !.next_run = _calculate_next_run(row.schedule_type,
                                          row.run_time, row.days_of_week, t + 1)]
         ELSE [row EXCEPT !.is_active = TRUE]
    ELSE [row EXCEPT !.is_active = FALSE]

\* toggle_automated_approval: the row after the handler ran at instant t.
Toggled(row, t) ==
    IF ~row.is_active
    THEN IF row.schedule_type = "once" /\ row.next_run = NoInstant
         THEN [row EXCEPT !.is_active = FALSE]
         ELSE IF row.next_run = NoInstant
         THEN [row EXCEPT !.is_active = TRUE,
                          !.next_run = _calculate_next_run(row.schedule_type,
                                          row.run_time, row.days_of_week, t + 1)]
         ELSE [row EXCEPT !.is_active = TRUE]
    ELSE [row EXCEPT !.is_active = FALSE]

Toggle(r) ==
    /\ r \in DOMAIN rules
    /\ rules' = [rules EXCEPT ![r] = Toggled(@, now)]
    /\ flash' = [rid |-> r,
                 status |-> IF rules'[r].is_active THEN "aktiviert" ELSE "deaktiviert",
                 warning |-> ~rules[r].is_active /\ ~rules'[r].is_active]
    /\ UNCHANGED <<now, shifts, leaves, notifications, sess, fin, manual_runs, staff, calc, log, req, names, worker>>

\* delete_automated_approval
Delete(r) ==
    /\ r \in DOMAIN rules
    /\ rules' = [x \in DOMAIN rules \ {r} |-> rules[x]]
    /\ UNCHANGED <<now, shifts, leaves, notifications, sess, fin, flash, manual_runs, staff, calc, log, req, names, worker>>

\* ---------------------------------------------------------- rule creation
\* A form field whose text does not parse (strptime raises ValueError).
Malformed == -2

\* The fields of a rule-creation form: name present or not, the two types
\* (a value outside the choices included), run_time and once_date missing
\* (NoInstant), malformed or valid, the ticked weekdays as sent, and the
\* staff group.
AllForms ==
    [name : BOOLEAN,
     automation_type : {"approve_shifts", "auto_schedule_position", "unknown"},
     schedule_type : SCHEDULE_CHOICES \cup {"unknown"},
     run_time : {NoInstant, Malformed} \cup (0 .. (DayLen - 1)),
     once_date : {NoInstant, Malformed} \cup (DateOf(StartTime) .. (DateOf(MaxTime) + 1)),
     days_of_week : {<<>>, <<3, 1>>, <<9>>},
     target_position : {"", "Aushilfe", "Unbekannt"}]

\* The fields of a form that are not filled in as the page offers them.
Defects(f) ==
    {k \in {"name", "automation_type", "schedule_type", "run_time",
            "once_date", "days_of_week", "target_position"} :
        \/ k = "name" /\ ~f.name
        \/ k = "automation_type" /\ f.automation_type = "unknown"
        \/ k = "schedule_type" /\ f.schedule_type = "unknown"
        \/ k = "run_time" /\ f.run_time < 0
        \/ k = "once_date" /\ f.once_date < 0
        \/ k = "days_of_week" /\ f.days_of_week # <<3, 1>>
        \/ k = "target_position" /\ f.target_position # "Aushilfe"}

\* The forms sent: at most one field deviates.
Forms == {f \in AllForms : Cardinality(Defects(f)) <= 1}

\* ",".join(sorted(set(selected_days))) if selected_days else None
DaysValue(selected_days) == SortedSeq(SeqToSet(selected_days))

\* The distinct non-empty positions of the employee table.
valid_positions(staff_table) == {staff_table[e] : e \in DOMAIN staff_table} \ {""}

\* The check of target_position with any non-empty text accepted.
TargetError_NonEmptyOnly(automation_type, target_position, positions) ==
    IF automation_type # "auto_schedule_position" THEN ""
    ELSE IF target_position = "" THEN "Mitarbeitergruppe fehlt"
    ELSE ""

\* The check of target_position: the message flashed, "" when accepted.
TargetError(automation_type, target_position, positions) ==
    IF automation_type # "auto_schedule_position" THEN ""
    ELSE IF target_position = "" THEN "Mitarbeitergruppe fehlt"
    ELSE IF target_position \notin positions THEN "Mitarbeitergruppe ungueltig"
    ELSE ""

\* The validations of create_automated_approval in their order: the
\* message flashed by the first that fails, "" when all pass.
ValidationError(f, t, positions) ==
    IF ~f.name THEN "Name fehlt"
    ELSE IF f.automation_type \notin AUTOMATION_TYPE_CHOICES THEN "Typ ungueltig"
    ELSE IF f.schedule_type \notin SCHEDULE_CHOICES THEN "Zeitplan ungueltig"
    ELSE IF f.run_time = Malformed THEN "Uhrzeit ungueltig"
    ELSE IF f.schedule_type = "weekly" /\ DaysValue(f.days_of_week) = <<>>
    THEN "Wochentag fehlt"
    ELSE IF f.schedule_type = "once"
    THEN IF f.once_date = NoInstant \/ f.run_time = NoInstant
         THEN "Datum und Uhrzeit erforderlich"
         ELSE IF f.once_date = Malformed THEN "Datum ungueltig"
         ELSE IF Combine(f.once_date, f.run_time) <= t THEN "nicht in der Zukunft"
         ELSE TargetError(f.automation_type, f.target_position, positions)
    ELSE IF f.run_time = NoInstant THEN "Uhrzeit fehlt"
    ELSE IF _calculate_next_run(f.schedule_type, f.run_time,
                                DaysValue(f.days_of_week), t + 1) = NoInstant
    THEN "kein naechster Termin"
    ELSE TargetError(f.automation_type, f.target_position, positions)

\* The primary key the store gives to the next inserted rule.
NextId(rule_table) ==
    IF DOMAIN rule_table = {} THEN 1
    ELSE (CHOOSE m \in DOMAIN rule_table : \A x \in DOMAIN rule_table : x <= m) + 1

\* A creation form arrives at create_automated_approval.
CreateRequest(f) ==
    /\ req = NoReq
    /\ Len(log) < MaxRequests
    /\ NextId(rules) \in RuleIds
    /\ req' = f
    /\ UNCHANGED <<now, rules, shifts, leaves, notifications, sess, fin, flash, manual_runs, staff, calc, log, names, worker>>

\* create_automated_approval: the first failing validation flashes its
\* message and returns; a form that passes all of them is stored.
CreateHandle ==
    /\ req # NoReq
    /\ NextId(rules) \in RuleIds
    /\ LET error == ValidationError(req, now, valid_positions(staff))
           once_at == IF req.schedule_type = "once"
                      THEN Combine(req.once_date, req.run_time)
                      ELSE NoInstant
       IN /\ rules' =
                IF error = ""
                THEN (NextId(rules) :>
                        NewRule(req.automation_type, req.schedule_type,
                                req.run_time, DaysValue(req.days_of_week),
                                once_at, req.target_position, now)) @@ rules
                ELSE rules
          /\ log' = Append(log, [handler |-> "create_automated_approval",
                                 category |-> IF error = "" THEN "success" ELSE "danger",
                                 message |-> error])
    /\ req' = NoReq
    /\ UNCHANGED <<now, shifts, leaves, notifications, sess, fin, flash, manual_runs, staff, calc, names, worker>>

\* ------------------------------------------------------------ staff groups
\* The names of the active work classes an employee form offers.
WorkClasses == {"Aushilfe", "Leitung"}

\* The names an employee form can carry.
Names == {"Anna", "Anna B."}

\* edit_employee: the name and the position of the form (a work class, or
\* none) are stored; the other columns are sent back as they were.
EditEmployee(e, name, position) ==
    /\ e \in DOMAIN staff
    /\ position \in WorkClasses \cup {"", staff[e]}
    /\ staff' = [staff EXCEPT ![e] = position]
    /\ names' = [names EXCEPT ![e] = name]
    /\ UNCHANGED <<now, rules, shifts, leaves, notifications, sess, fin, flash, manual_runs, calc, log, req, worker>>

\* ------------------------------------------------ the shift generation form
\* The staff groups a form can name and the months it can ask for.
Positions == {"Aushilfe", "Vollzeit", "Leitung"}
Months == 0 .. (MonthOf(MaxTime) + 1)

\* create_auto_schedule, mode "position": the handler calls the generator
\* for the group, year and month of the form.
GenerateStart(position, month, dry_run) ==
    /\ sess["manual"].pc = "idle"
    /\ Len(log) < MaxRequests
    /\ sess' = [sess EXCEPT !["manual"] =
                    [IdleSess EXCEPT !.pc = "generate",
                                     !.position = position,
                                     !.month = month,
                                     !.dry_run = dry_run,
                                     !.employees_found =
                                            Cardinality(GroupEmployees(position)),
                                     !.slots = GeneratorSlots(position, month)]]
    /\ UNCHANGED <<now, rules, shifts, leaves, notifications, fin, flash, manual_runs, staff, calc, log, req, names, worker>>

GenerateStep ==
    /\ sess["manual"].pc = "generate"
    /\ sess["manual"].slots # <<>>
    /\ sess' = [sess EXCEPT !["manual"] = GeneratorVisit(@, shifts)]
    /\ UNCHANGED <<now, rules, shifts, leaves, notifications, fin, flash, manual_runs, staff, calc, log, req, names, worker>>

\* The generator's commit and the handler's answer with both counts.
GenerateCommit ==
    /\ sess["manual"].pc = "generate"
    /\ sess["manual"].slots = <<>>
    /\ shifts' = shifts \o sess["manual"].new_shifts
    /\ log' = Append(log, [handler |-> "create_auto_schedule",
                           position |-> sess["manual"].position,
                           month |-> sess["manual"].month,
                           dry_run |-> sess["manual"].dry_run,
                           total_created |-> sess["manual"].created_count,
                           total_skipped |-> sess["manual"].skipped_count,
                           before |-> shifts,
                           after |-> shifts'])
    /\ sess' = [sess EXCEPT !["manual"] = IdleSess]
    /\ UNCHANGED <<now, rules, leaves, notifications, fin, flash, manual_runs, staff, calc, req, names, worker>>

\* ------------------------------------------------ the recurrence calculator
\* Arguments of a call: a stored run_time or none, a stored days_of_week
\* text (entries outside 0..6 included), a reference instant.
RunTimes == (0 .. (DayLen - 1)) \cup {NoInstant}
DayTexts ==
    {<<>>, <<0>>, <<6>>, <<1, 3>>, <<2, 4, 5>>, <<9>>, <<3, 1, 9>>,
     <<0, 1, 2, 3, 4, 5, 6>>}
References == 0 .. ((MaxRefDay + 1) * DayLen - 1)

\* One call of _calculate_next_run with the arguments drawn at start.
Calculate ==
    /\ calc # NoCalc
    /\ ~calc.done
    /\ calc' = [calc EXCEPT !.done = TRUE,
                            !.result = _calculate_next_run(calc.schedule_type,
                                            calc.run_time, calc.days, calc.reference)]
    /\ UNCHANGED <<now, rules, shifts, leaves, notifications, sess, fin, flash, manual_runs, staff, log, req, names, worker>>

\* ---------------------------------------------------------- specification
Next ==
    \/ Tick
    \/ PollQuery
    \/ PollNext
    \/ PollDone
    \/ PollerRollback
    \/ ManualAbort
    \/ \E r \in RuleIds : ManualStart(r)
    \/ \E r \in RuleIds : Toggle(r)
    \/ \E r \in RuleIds : Delete(r)
    \/ \E p \in Procs : Execute(p)
    \/ \E p \in Procs : GenStep(p)
    \/ \E p \in Procs : GenCommit(p)
    \/ \E p \in Procs : StampCommit(p)
    \/ \E p \in Procs : Fail(p)

Spec == Init /\ [][Next]_vars

\* The poller's cycle over two due rules, with failures and deletions.
NextCycle ==
    \/ Tick
    \/ PollQuery
    \/ PollNext
    \/ PollDone
    \/ PollerRollback
    \/ \E r \in RuleIds : Delete(r)
    \/ Execute("poller")
    \/ GenStep("poller")
    \/ GenCommit("poller")
    \/ StampCommit("poller")
    \/ Fail("poller")

SpecCycle == InitCycle /\ [][NextCycle]_vars

\* The worker thread is scheduled: while it lives, its loop "while True:
\* process, sleep(60)" takes its next step, and every call made inside a
\* run returns. Failures, deletions and the clock are under no obligation.
PollerFairness ==
    /\ WF_vars(PollQuery)
    /\ WF_vars(PollNext)
    /\ WF_vars(PollDone)
    /\ WF_vars(PollerRollback)
    /\ WF_vars(Execute("poller"))
    /\ WF_vars(GenStep("poller"))
    /\ WF_vars(GenCommit("poller"))
    /\ WF_vars(StampCommit("poller"))

SpecCycleFair == InitCycle /\ [][NextCycle]_vars /\ PollerFairness

\* The shift generation form, asked twice in a row, over a store without
\* rules; the staff table and the shifts already planned vary.
InitGen ==
    /\ now = StartTime
    /\ rules = <<>>
    /\ shifts \in {<<>>, InitShifts,
                   <<[employee_id |-> 2, date |-> 0, shift_type |-> "Frueh",
                      approved |-> TRUE]>>}
    /\ leaves = InitLeaves
    /\ notifications = InitNotifications
    /\ sess = [p \in Procs |-> IdleSess]
    /\ fin = [p \in Procs |-> NoFin]
    /\ flash = [rid |-> 0, status |-> "", warning |-> FALSE]
    /\ manual_runs = 0
    /\ staff \in [EmployeeIds -> {"Aushilfe", "Vollzeit"}]
    /\ calc = NoCalc
    /\ log = <<>>
    /\ req = NoReq
    /\ names = [e \in EmployeeIds |-> Employee[e].name]
    /\ worker = RunningWorker

NextGen ==
    \/ \E position \in Positions, month \in Months, dry_run \in BOOLEAN :
            GenerateStart(position, month, dry_run)
    \/ GenerateStep
    \/ GenerateCommit

SpecGen == InitGen /\ [][NextGen]_vars

\* The Recurrence Calculator called once, for every combination of arguments.
InitCalc ==
    /\ now = StartTime
    /\ rules = <<>>
    /\ shifts = InitShifts
    /\ leaves = InitLeaves
    /\ notifications = InitNotifications
    /\ sess = [p \in Procs |-> IdleSess]
    /\ fin = [p \in Procs |-> NoFin]
    /\ flash = [rid |-> 0, status |-> "", warning |-> FALSE]
    /\ manual_runs = 0
    /\ staff = [e \in EmployeeIds |-> Employee[e].position]
    /\ log = <<>>
    /\ req = NoReq
    /\ names = [e \in EmployeeIds |-> Employee[e].name]
    /\ worker = RunningWorker
    /\ \E st \in SCHEDULE_CHOICES, rt \in RunTimes, days \in DayTexts,
          reference \in References :
            calc = [done |-> FALSE, schedule_type |-> st, run_time |-> rt,
                    days |-> days, reference |-> reference, result |-> NoInstant]

NextCalc == Calculate

SpecCalc == InitCalc /\ [][NextCalc]_vars

\* Rule creation over an empty rule store, with toggles and deletions of
\* the created rules, while the employee of the group "Aushilfe" changes
\* position.
InitCreate == InitWith(<<>>)

NextCreate ==
    \/ Tick
    \/ \E r \in RuleIds : Toggle(r)
    \/ \E r \in RuleIds : Delete(r)
    \/ \E f \in Forms : CreateRequest(f)
    \/ CreateHandle
    \/ \E position \in WorkClasses \cup {""} : EditEmployee(1, names[1], position)

SpecCreate == InitCreate /\ [][NextCreate]_vars

\* One stored rule that is due, run by the Poller while the staff groups
\* change; the store holds the pending requests or none.
InitStaff ==
    \E at1 \in AUTOMATION_TYPE_CHOICES, st1 \in SCHEDULE_CHOICES, pending \in BOOLEAN :
        /\ now = StartTime
        /\ rules = 1 :> InitRule(at1, st1)
        /\ shifts = IF pending THEN InitShifts ELSE <<>>
        /\ leaves = IF pending THEN InitLeaves ELSE <<>>
        /\ notifications = IF pending THEN InitNotifications ELSE EmptyBag
        /\ sess = [p \in Procs |-> IdleSess]
        /\ fin = [p \in Procs |-> NoFin]
        /\ flash = [rid |-> 0, status |-> "", warning |-> FALSE]
        /\ manual_runs = 0
        /\ staff = [e \in EmployeeIds |-> Employee[e].position]
        /\ calc = NoCalc
        /\ log = <<>>
        /\ req = NoReq
        /\ names = [e \in EmployeeIds |-> Employee[e].name]
        /\ worker = RunningWorker

NextStaff ==
    \/ Tick
    \/ PollQuery
    \/ PollNext
    \/ PollDone
    \/ PollerRollback
    \/ Execute("poller")
    \/ GenStep("poller")
    \/ GenCommit("poller")
    \/ StampCommit("poller")
    \/ Fail("poller")
    \/ \E e \in EmployeeIds, position \in WorkClasses \cup {""} : EditEmployee(e, names[e], position)

SpecStaff == InitStaff /\ [][NextStaff]_vars

\* One stored approval rule that is due, run by the Poller and by "run
\* now" requests, with failures inside the approval loops, while the
\* employee who sent the pending requests is renamed.
InitRecords ==
    \E at1 \in AUTOMATION_TYPE_CHOICES \ {"auto_schedule_position"}, st1 \in SCHEDULE_CHOICES :
        InitWith(1 :> InitRule(at1, st1))

NextRecords ==
    \/ Tick
    \/ PollQuery
    \/ PollNext
    \/ PollDone
    \/ PollerRollback
    \/ ManualAbort
    \/ \E r \in RuleIds : ManualStart(r)
    \/ \E p \in Procs : Execute(p)
    \/ \E p \in Procs : StampCommit(p)
    \/ \E p \in Procs, kind \in {"shift", "leave"}, i \in 1 .. MaxRecords : FailRecord(p, kind, i)
    \/ \E name \in Names : EditEmployee(1, name, staff[1])

SpecRecords == InitRecords /\ [][NextRecords]_vars

\* One stored recurring approval rule that is due, run by the Poller and by
\* a "run now" request, with the clock reading of a run and its commit as
\* separate steps.
InitStamp ==
    \E at1 \in AUTOMATION_TYPE_CHOICES \ {"auto_schedule_position"}, st1 \in {"daily", "weekly"} :
        InitWith(1 :> InitRule(at1, st1))

NextStamp ==
    \/ Tick
    \/ PollQuery
    \/ PollNext
    \/ PollDone
    \/ \E r \in RuleIds : ManualStart(r)
    \/ \E p \in Procs : Execute(p)
    \/ \E p \in Procs : Stamp(p)
    \/ \E p \in Procs : Commit(p)

SpecStamp == InitStamp /\ [][NextStamp]_vars

\* One stored rule that is due, the worker's cycles and requests of the
\* overview page.
InitPage ==
    \E at1 \in AUTOMATION_TYPE_CHOICES, st1 \in SCHEDULE_CHOICES :
        InitWith(1 :> InitRule(at1, st1))

NextPage ==
    \/ Tick
    \/ PollQuery
    \/ PollNext
    \/ PollDone
    \/ PollerRollback
    \/ PageQuery
    \/ PageNext
    \/ PageDone
    \/ PageRollback
    \/ \E r \in RuleIds : Delete(r)
    \/ \E p \in Procs : Execute(p)
    \/ \E p \in Procs : GenStep(p)
    \/ \E p \in Procs : GenCommit(p)
    \/ \E p \in Procs : StampCommit(p)
    \/ \E p \in Procs : Fail(p)

SpecPage == InitPage /\ [][NextPage]_vars

\* A fresh application object on which several threads call
\* _start_automation_worker.
InitWorker ==
    /\ now = StartTime
    /\ rules = <<>>
    /\ shifts = InitShifts
    /\ leaves = InitLeaves
    /\ notifications = InitNotifications
    /\ sess = [p \in Procs |-> IdleSess]
    /\ fin = [p \in Procs |-> NoFin]
    /\ flash = [rid |-> 0, status |-> "", warning |-> FALSE]
    /\ manual_runs = 0
    /\ staff = [e \in EmployeeIds |-> Employee[e].position]
    /\ calc = NoCalc
    /\ log = <<>>
    /\ req = NoReq
    /\ names = [e \in EmployeeIds |-> Employee[e].name]
    /\ worker = [RunningWorker EXCEPT !.started = FALSE, !.threads = 0]

NextWorker ==
    \/ \E c \in Callers : CallCheck(c)
    \/ \E c \in Callers : CallStart(c)
    \/ \E c \in Callers : CallMark(c)

SpecWorker == InitWorker /\ [][NextWorker]_vars

\* ================================================================ claims
Generated(row) == row.shift_type # "Frueh" /\ row.shift_type # "Spaet"

\* C1: when a rule's execution fails inside a Poller cycle, every write of
\* that run is discarded: at the moment the failure is caught, no row the
\* run added has reached the committed store.
C1_FailedRunLeavesNoWrites ==
    (sess["poller"].pc = "failed" /\ sess["poller"].rid \in DOMAIN rules)
        => sess["poller"].rows_committed = 0

\* C2: under every interleaving of the Poller and the Manual Trigger, the
\* shift store never holds two generated shifts of one employee on one date.
C2_NoDuplicateGeneratedShift ==
    \A i, j \in DOMAIN shifts :
        (i # j /\ Generated(shifts[i]) /\ Generated(shifts[j]))
            => ~(shifts[i].employee_id = shifts[j].employee_id
                    /\ shifts[i].date = shifts[j].date)

C4_SiblingsStillProcessed ==
    sess["poller"].pc \in {"idle", "dead"}
        => sess["poller"].passed = sess["poller"].queried

\* A step in which thread p commits a run (the orchestrator returns).
Commits(p) ==
    /\ sess[p].pc = "stamp"
    /\ sess'[p].pc \in {"loop", "idle"}

\* A step in which the toggle handler reactivates rule r.
Reactivates(r) ==
    /\ r \in DOMAIN rules
    /\ r \in DOMAIN rules'
    /\ ~rules[r].is_active
    /\ rules'[r].is_active

C6_RecurringRescheduled ==
    [][\A p \in Procs :
        (Commits(p) /\ Recurring(sess[p].obj)) =>
            /\ rules'[sess[p].rid].last_run = now
            /\ rules'[sess[p].rid].next_run # NoInstant
            /\ rules'[sess[p].rid].next_run > now]_vars

\* A recurring rule that was overdue by a day or more has been run and is
\* scheduled after the current instant.
C6_Witness ==
    \E p \in Procs :
        /\ fin[p].rid \in DOMAIN rules
        /\ Recurring(rules[fin[p].rid])
        /\ fin[p].prev_next_run # NoInstant
        /\ fin[p].prev_next_run + DayLen <= fin[p].last_run
        /\ rules[fin[p].rid].last_run = fin[p].last_run
        /\ rules[fin[p].rid].next_run > now

\* C7: a successful run of a once rule, by the Poller or by the Manual
\* Trigger, leaves is_active false and next_run absent.
C7_OnceExhausted ==
    [][\A p \in Procs :
        (Commits(p) /\ sess[p].obj.schedule_type = "once") =>
            /\ ~rules'[sess[p].rid].is_active
            /\ rules'[sess[p].rid].next_run = NoInstant]_vars

Exhausted(row) ==
    row.schedule_type = "once" /\ ~row.is_active /\ row.next_run = NoInstant

\* C8: a once rule that is inactive without next_run stays so under every
\* step, the toggle included (which answers with the warning), and no
\* due-query of the Poller returns it.
C8_CompletedOnceStaysOff ==
    [][\A r \in RuleIds :
        (r \in DOMAIN rules /\ Exhausted(rules[r])) =>
            /\ r \in DOMAIN rules' => Exhausted(rules'[r])
            /\ (flash' # flash /\ flash'.rid = r) => flash'.warning
            /\ (sess["poller"].pc = "idle" /\ sess'["poller"].pc = "loop")
                    => r \notin sess'["poller"].queried]_vars

\* The toggle of a completed once rule was answered with the warning.
C8_Witness ==
    /\ flash.warning
    /\ flash.rid \in DOMAIN rules
    /\ Exhausted(rules[flash.rid])
    /\ rules[flash.rid].last_run # NoInstant

\* C9: in every committed state a rule that carries a last_run carries the
\* summary, next_run and is_active written with it: a once rule is inactive
\* without next_run, a recurring rule has the next_run computed from that
\* last_run; a rule without last_run has no summary.
C9_RuleNeverHalfUpdated ==
    \A r \in DOMAIN rules :
        IF rules[r].last_run = NoInstant
        THEN rules[r].last_run_summary = <<>>
        ELSE /\ rules[r].last_run_summary # <<>>
             /\ IF rules[r].schedule_type = "once"
                THEN ~rules[r].is_active /\ rules[r].next_run = NoInstant
                ELSE rules[r].next_run =
                        _calculate_next_run(rules[r].schedule_type, rules[r].run_time,
                                            rules[r].days_of_week, rules[r].last_run + 1)

\* C10: a run of an approve_shifts rule loads every unapproved shift and
\* its commit approves them and changes no leave; a run that starts when no
\* shift is unapproved (the second of two runs in succession) loads
\* nothing, creates no notification, returns the fixed summary and its
\* commit changes no shift and no notification.
C10_SecondRunFindsNothing ==
    [][\A p \in Procs :
        /\ (sess[p].pc = "exec" /\ sess'[p].pc = "stamp"
                /\ sess[p].obj.automation_type = "approve_shifts")
            => /\ sess'[p].shift_ids = {i \in DOMAIN shifts : ~shifts[i].approved}
               /\ (\A i \in DOMAIN shifts : shifts[i].approved)
                    => /\ sess'[p].summary = NoPendingSummary
                       /\ sess'[p].created = EmptyBag
                       /\ sess'[p].cleared = {}
        /\ (Commits(p) /\ sess[p].obj.automation_type = "approve_shifts")
            => /\ \A i \in sess[p].shift_ids : shifts'[i].approved
               /\ leaves' = leaves
               /\ sess[p].shift_ids = {}
                    => /\ shifts' = shifts
                       /\ notifications' = notifications
                       /\ rules'[sess[p].rid].last_run_summary = NoPendingSummary]_vars

\* A run that found nothing was committed right after a run of the same
\* rule that had approved both pending shifts.
C10_Witness ==
    \E p \in Procs :
        /\ fin[p].rid \in DOMAIN rules
        /\ fin[p].automation_type = "approve_shifts"
        /\ fin[p].prev_summary = <<[part |-> "Einsaetze freigegeben", n |-> 2]>>
        /\ fin[p].summary = NoPendingSummary
        /\ fin[p].shift_ids = {}
        /\ rules[fin[p].rid].last_run_summary = NoPendingSummary


\* The (employee, date) pairs of a staff group in a month that fall on a
\* working day of the employee.
WorkSlots(position, month) ==
    {<<e, d>> \in (DOMAIN staff) \X MonthDates(month) :
        staff[e] = position /\ Weekday(d) \in WorkDays(position, e)}

GroupHasShift(table, position, month) ==
    \E i \in DOMAIN table :
        /\ table[i].employee_id \in DOMAIN staff
        /\ staff[table[i].employee_id] = position
        /\ table[i].date \in MonthDates(month)

\* C11: shift generation for a group and month in which no employee of the
\* group has a shift creates exactly one shift per (employee, working day)
\* of the month; the next generation for the same group and month creates
\* none, reports as skipped what the first created, and leaves the shift
\* store unchanged.
C11_GenerationTwice ==
    \A k \in DOMAIN log :
        (/\ log[k].handler = "create_auto_schedule"
         /\ ~log[k].dry_run
         /\ ~GroupHasShift(log[k].before, log[k].position, log[k].month))
        => /\ log[k].total_created = Cardinality(WorkSlots(log[k].position, log[k].month))
           /\ Len(log[k].after) = Len(log[k].before) + log[k].total_created
           /\ \A i \in DOMAIN log[k].before : log[k].after[i] = log[k].before[i]
           /\ \A w \in WorkSlots(log[k].position, log[k].month) :
                Cardinality({i \in DOMAIN log[k].after :
                                /\ log[k].after[i].employee_id = w[1]
                                /\ log[k].after[i].date = w[2]}) = 1
           /\ (/\ k + 1 \in DOMAIN log
               /\ log[k + 1].handler = "create_auto_schedule"
               /\ ~log[k + 1].dry_run
               /\ log[k + 1].position = log[k].position
               /\ log[k + 1].month = log[k].month)
              => /\ log[k + 1].total_created = 0
                 /\ log[k + 1].total_skipped = log[k].total_created
                 /\ log[k + 1].after = log[k + 1].before

\* Two generations in a row for the same group and month, the first into
\* a month without shifts of the group, creating shifts for two employees.
C11_Witness ==
    /\ Len(log) = 2
    /\ log[1].handler = "create_auto_schedule"
    /\ log[2].handler = "create_auto_schedule"
    /\ ~log[1].dry_run /\ ~log[2].dry_run
    /\ log[1].position = log[2].position
    /\ log[1].month = log[2].month
    /\ ~GroupHasShift(log[1].before, log[1].position, log[1].month)
    /\ log[1].before # <<>>
    /\ Cardinality({w[1] : w \in WorkSlots(log[1].position, log[1].month)}) = 2
    /\ log[1].total_created > 2
    /\ log[2].total_created = 0
    /\ log[2].total_skipped = log[1].total_created


\* C12: for a daily rule with a run_time, the Recurrence Calculator returns
\* an instant whose time of day is run_time, strictly after the reference
\* and at most one day after it.
C12_DailyWithinOneDay ==
    (calc # NoCalc /\ calc.done /\ calc.schedule_type = "daily"
        /\ calc.run_time # NoInstant)
    => /\ calc.result # NoInstant
       /\ TimeOf(calc.result) = calc.run_time
       /\ calc.reference < calc.result
       /\ calc.result <= calc.reference + DayLen

\* The reference is exactly at run_time: the result is the next day.
C12_Witness ==
    /\ calc # NoCalc /\ calc.done /\ calc.schedule_type = "daily"
    /\ calc.run_time # NoInstant
    /\ TimeOf(calc.reference) = calc.run_time
    /\ calc.result = calc.reference + DayLen

\* C13: for a weekly rule with a run_time and at least one weekday in
\* days_of_week, the Recurrence Calculator returns an instant strictly after
\* the reference, at run_time, on one of those weekdays.
C13_WeeklyOnAllowedDay ==
    (calc # NoCalc /\ calc.done /\ calc.schedule_type = "weekly"
        /\ calc.run_time # NoInstant
        /\ SeqToSet(calc.days) \cap (0..6) # {})
    => /\ calc.result # NoInstant
       /\ calc.result > calc.reference
       /\ TimeOf(calc.result) = calc.run_time
       /\ Weekday(DateOf(calc.result)) \in SeqToSet(calc.days) \cap (0..6)

\* Days Tuesday and Thursday, reference a Monday after run_time: the result
\* is the Tuesday at run_time.
C13_Witness ==
    /\ calc # NoCalc /\ calc.done /\ calc.schedule_type = "weekly"
    /\ calc.days = <<1, 3>>
    /\ calc.run_time # NoInstant
    /\ Weekday(DateOf(calc.reference)) = 0
    /\ TimeOf(calc.reference) > calc.run_time
    /\ calc.result = Combine(DateOf(calc.reference) + 1, calc.run_time)


\* A step in which the toggle handler deactivates rule r.
Deactivates(r) ==
    /\ r \in DOMAIN rules
    /\ r \in DOMAIN rules'
    /\ rules[r].is_active
    /\ ~rules'[r].is_active
    /\ sess' = sess

Handles == req # NoReq /\ req' = NoReq

\* A form that fails one of the validations of the rule-creation request:
\* no name, a type outside its set, run_time missing or malformed, weekly
\* without any weekday (0..6), once without a date or not in the future,
\* auto_schedule_position without a target_position of the valid set.
FailsValidation(f, t, positions) ==
    \/ ~f.name
    \/ f.automation_type \notin AUTOMATION_TYPE_CHOICES
    \/ f.schedule_type \notin SCHEDULE_CHOICES
    \/ f.run_time \in {NoInstant, Malformed}
    \/ f.schedule_type = "weekly" /\ SeqToSet(f.days_of_week) \cap (0 .. 6) = {}
    \/ f.schedule_type = "once"
        /\ (f.once_date \in {NoInstant, Malformed}
            \/ Combine(f.once_date, f.run_time) <= t)
    \/ f.automation_type = "auto_schedule_position"
        /\ (f.target_position = "" \/ f.target_position \notin positions)

\* C15: a rule-creation request that fails validation leaves the rule store
\* unchanged: no rule is created.
C15_InvalidRequestStoresNothing ==
    [][(Handles /\ FailsValidation(req, now, valid_positions(staff)))
            => rules' = rules]_vars

StaleTarget(p) ==
    /\ sess[p].rid # 0
    /\ sess[p].obj.automation_type = "auto_schedule_position"
    /\ sess[p].obj.target_position # ""
    /\ sess[p].pc \in {"gen", "stamp"}
    /\ sess[p].employees_found = 0

\* C17: when an auto_schedule_position rule fires in a Poller cycle and its
\* target_position names no staff group any more, the run is an execution
\* failure: the Poller does not stamp last_run or advance next_run, and
\* the rule stays active and Due.
C17_StaleTargetIsFailure ==
    [][(StaleTarget("poller") /\ sess'["poller"].pc \notin {"gen", "stamp"})
            => /\ sess'["poller"].pc = "failed"
               /\ rules' = rules]_vars

\* The executor of thread p has returned: its summary and the notifications
\* it added are in the session, not yet committed.
Returned(p) == sess[p].pc = "stamp"

\* The notifications the run of thread p added for administrator a that
\* name the rule and the run's summary.
AdminNotices(p, a) ==
    CopiesIn([recipient_id |-> a,
              message |-> AdminMessage(sess[p].rid, sess[p].summary),
              link |-> Link("system_settings")], sess[p].created)

\* The run of thread p approved no record and created or skipped no shift.
DidNothing(p) ==
    /\ sess[p].shift_ids = {}
    /\ sess[p].leave_ids = {}
    /\ sess[p].created_count = 0
    /\ sess[p].skipped_count = 0

\* The summary of thread p's run is the fragments of its non-zero outcomes:
\* approved shifts, approved leaves, shifts created or skipped.
JoinsNonZero(p) ==
    LET s == sess[p]
        ns == Cardinality(s.shift_ids)
        nl == Cardinality(s.leave_ids)
        has(part) == \E i \in 1 .. Len(s.summary) : s.summary[i].part = part
    IN /\ (ns > 0) <=> has("Einsaetze freigegeben")
       /\ (nl > 0) <=> has("Abwesenheiten genehmigt")
       /\ (s.created_count > 0 \/ s.skipped_count > 0)
            <=> (has("Schichten erstellt") \/ has("Schichten erstellt, uebersprungen"))
       /\ \A i \in 1 .. Len(s.summary) :
            \/ s.summary[i].part = "Einsaetze freigegeben" /\ s.summary[i].n = ns
            \/ s.summary[i].part = "Abwesenheiten genehmigt" /\ s.summary[i].n = nl
            \/ /\ s.summary[i].part \in {"Schichten erstellt",
                                         "Schichten erstellt, uebersprungen"}
               /\ s.summary[i].created = s.created_count
               /\ s.summary[i].skipped = s.skipped_count

\* C19: a run yields the fixed 'no pending items' summary and no
\* administrator notification exactly when it approved no record and
\* created or skipped no shift; otherwise the summary joins the non-zero
\* outcome fragments and every administrator gets one notification naming
\* the rule and the summary.
C19_NoPendingIffNothingDone ==
    \A p \in Procs :
        Returned(p) =>
            IF DidNothing(p)
            THEN /\ sess[p].summary = NoPendingSummary
                 /\ \A a \in Admins : AdminNotices(p, a) = 0
            ELSE /\ sess[p].summary # NoPendingSummary
                 /\ JoinsNonZero(p)
                 /\ \A a \in Admins : AdminNotices(p, a) = 1

\* The run of thread p is a generation run that found nothing to create or
\* to skip.
EmptyGeneration(p) ==
    /\ sess[p].obj.automation_type = "auto_schedule_position"
    /\ sess[p].obj.target_position # ""
    /\ sess[p].created_count = 0
    /\ sess[p].skipped_count = 0

\* C19 (amended): the fixed 'no pending items' summary and no administrator
\* notification are the outcome exactly of an approval run that approved no
\* record. A generation run that created and skipped nothing yields the one
\* fragment 'Keine Schichten erstellt' for its group and month; every other
\* run joins its non-zero fragments; both notify every administrator once.
C19_NoPendingIffNothingApproved ==
    \A p \in Procs :
        Returned(p) =>
            IF DidNothing(p) /\ ~EmptyGeneration(p)
            THEN /\ sess[p].summary = NoPendingSummary
                 /\ \A a \in Admins : AdminNotices(p, a) = 0
            ELSE /\ sess[p].summary # NoPendingSummary
                 /\ IF EmptyGeneration(p)
                    THEN /\ Len(sess[p].summary) = 1
                         /\ sess[p].summary[1].part = "Keine Schichten erstellt"
                         /\ sess[p].summary[1].position = sess[p].obj.target_position
                         /\ sess[p].summary[1].month = sess[p].month
                    ELSE JoinsNonZero(p)
                 /\ \A a \in Admins : AdminNotices(p, a) = 1

\* A generation run for a group whose only employee has no default working
\* days has returned: nothing created, nothing skipped, the administrator
\* notified.
C19_Witness ==
    /\ Returned("poller")
    /\ EmptyGeneration("poller")
    /\ sess["poller"].employees_found > 0
    /\ \A a \in Admins : AdminNotices("poller", a) = 1

\* The run of thread p ends after one record of its approval loops raised.
EndsAfterRecordFailure(p) ==
    /\ sess[p].pc = "failed"
    /\ sess[p].failed_on # NoRecord
    /\ sess'[p].pc # "failed"

\* C18: within one execution of an approval rule each pending record is
\* processed independently: when processing one pending shift or leave
\* fails, every other pending record of the run is still approved and its
\* owner notified.
C18_OtherRecordsStillApproved ==
    [][\A p \in Procs :
        EndsAfterRecordFailure(p) =>
            /\ \A i \in sess[p].shift_ids :
                    [kind |-> "shift", id |-> i] # sess[p].failed_on
                        => /\ shifts'[i].approved
                           /\ CopiesIn([recipient_id |-> shifts[i].employee_id,
                                        message |-> ShiftApprovedMessage(shifts[i].date),
                                        link |-> ScheduleLink(shifts[i].date)],
                                       notifications') > 0
            /\ \A i \in sess[p].leave_ids :
                    [kind |-> "leave", id |-> i] # sess[p].failed_on
                        => leaves'[i].approved]_vars

\* The notifications of the store that carry the message and the link of a
\* request's pending notice, whoever the recipient. Every request of the
\* store was sent under the name its employee had at start.
PendingNotices(message, link) ==
    {n \in BagToSet(notifications) : n.message = message /\ n.link = link}

\* C20: after a committed run of an approval rule, for every shift or leave
\* the run approved no notification with the request's pending-notice
\* message and link remains for any recipient and the owner of the record
\* has the resolution notification: no committed state holds both.
C20_PendingNoticeReplaced ==
    \A p \in Procs :
        fin[p].rid # 0 =>
            /\ \A i \in fin[p].shift_ids :
                /\ shifts[i].approved
                /\ PendingNotices(_build_shift_request_message(
                                        Employee[shifts[i].employee_id].name,
                                                               shifts[i].date),
                                  Link("shift_requests_overview")) = {}
                /\ CopiesIn([recipient_id |-> shifts[i].employee_id,
                             message |-> ShiftApprovedMessage(shifts[i].date),
                             link |-> ScheduleLink(shifts[i].date)],
                            notifications) > 0
            /\ \A i \in fin[p].leave_ids :
                /\ leaves[i].approved
                /\ PendingNotices(_build_leave_request_message(
                                        Employee[leaves[i].employee_id].name,
                                        leaves[i].leave_type, leaves[i].start_date,
                                        leaves[i].end_date),
                                  Link("leave_requests")) = {}
                /\ CopiesIn([recipient_id |-> leaves[i].employee_id,
                             message |-> LeaveApprovedMessage(leaves[i].leave_type,
                                            leaves[i].start_date, leaves[i].end_date),
                             link |-> Link("leave_form")],
                            notifications) > 0

\* Thread p is inside a pass of _process_due_automations: between its
\* due-query and the end of its loop.
InsidePass(p) ==
    \/ sess[p].pc = "loop"
    \/ /\ sess[p].pc \in {"exec", "gen", "stamp", "failed"}
       /\ (p = "poller" \/ sess[p].passed # {})

\* C21: two passes of due-rule processing never overlap within one server
\* process: at most one pass is between its due-query and the end of its
\* loop, and no rule is executed by two passes at the same time.
C21_PassesNeverOverlap ==
    /\ ~(InsidePass("poller") /\ InsidePass("manual"))
    /\ \A r \in RuleIds :
        ~(\A p \in Procs : InsidePass(p) /\ sess[p].rid = r)

ManualRunning ==
    /\ sess["manual"].pc \in {"exec", "gen", "stamp"}
    /\ sess["manual"].passed = {}

\* The "run now" request has failed and not yet been answered.
ManualFailed ==
    /\ sess["manual"].pc = "failed"
    /\ sess["manual"].passed = {}

\* C23: when the executor fails during a Manual Trigger, the failure reaches
\* the caller as an error, not as a success summary, and last_run,
\* last_run_summary, next_run and is_active of the rule are not committed
\* with the values of that run: neither the failing step nor the answer of
\* the failed request writes the rule store or records a completed run.
C23_ManualFailureSurfaces ==
    [][/\ (ManualRunning /\ sess'["manual"].pc = "failed")
            => (rules' = rules /\ fin' = fin)
       /\ (ManualFailed /\ sess'["manual"].pc # "failed")
            => /\ rules' = rules
               /\ fin' = fin
               /\ sess'["manual"].pc = "idle"
               /\ sess'["manual"].summary = <<>>]_vars

\* A "run now" request of a stored rule has failed after the executor had
\* returned its summary; the rule carries no stamp.
C23_Witness ==
    /\ ManualFailed
    /\ sess["manual"].summary # <<>>
    /\ sess["manual"].rid \in DOMAIN rules
    /\ rules[sess["manual"].rid].last_run = NoInstant
    /\ fin["manual"] = NoFin

\* C24: for a weekly rule with a non-empty days_of_week the Recurrence
\* Calculator returns the earliest qualifying instant: no instant strictly
\* between the reference and the result is at run_time on a weekday of
\* days_of_week, and the result's date is at most 7 days after the
\* reference's date.
C24_WeeklyEarliest ==
    (calc # NoCalc /\ calc.done /\ calc.schedule_type = "weekly"
        /\ calc.run_time # NoInstant
        /\ calc.days # <<>>)
    => /\ calc.result # NoInstant
       /\ \A t \in (calc.reference + 1) .. (calc.result - 1) :
            ~(TimeOf(t) = calc.run_time
                /\ Weekday(DateOf(t)) \in SeqToSet(calc.days))
       /\ DateOf(calc.result) <= DateOf(calc.reference) + 7

\* Days Wednesday, Friday and Saturday, reference a Friday before run_time:
\* the result is that same Friday, not the Saturday after it.
C24_Witness ==
    /\ calc # NoCalc /\ calc.done /\ calc.schedule_type = "weekly"
    /\ calc.days = <<2, 4, 5>>
    /\ calc.run_time # NoInstant
    /\ Weekday(DateOf(calc.reference)) = 4
    /\ TimeOf(calc.reference) < calc.run_time
    /\ calc.result = Combine(DateOf(calc.reference), calc.run_time)

\* Rule r is Due: stored, active, its next_run has arrived.
Due(r) ==
    /\ r \in DOMAIN rules
    /\ rules[r].is_active
    /\ rules[r].next_run # NoInstant
    /\ rules[r].next_run <= now

\* An execution of rule r by the Poller has failed.
FailedRun(r) == sess["poller"].pc = "failed" /\ sess["poller"].rid = r

\* C25: under a Poller that keeps taking cycles, every rule that is Due and
\* whose execution does not fail is eventually executed and leaves the Due
\* state, whatever happens to the execution of another rule, and the Poller
\* never stops taking cycles.
C25_DueRuleEventuallyRuns ==
    /\ \A r \in RuleIds : Due(r) ~> (~Due(r) \/ FailedRun(r))
    /\ []<>(sess["poller"].pc = "idle")

\* The rows of a notification table whose link leads to one of the endpoints.
WithLink(table, endpoints) ==
    LET kept == {n \in DOMAIN table : n.link.endpoint \in endpoints}
    IN [n \in kept |-> table[n]]

ShiftEndpoints == {"shift_requests_overview", "schedule"}
LeaveEndpoints == {"leave_requests", "leave_form"}

\* The step in which the executor of a run of process p returns.
Executes(p) ==
    /\ sess[p].pc = "exec"
    /\ sess'[p].pc = "stamp"

\* C26: one execution of an approve_leaves rule loads every leave that is
\* unapproved at load time and loads no shift, reports their number, creates
\* exactly one resolution notification per loaded leave for its requester,
\* and its commit approves the loaded leaves and changes no shift and no
\* shift-related notification; an approve_shifts run symmetrically changes
\* no leave and no leave-related notification; an approve_all run loads and
\* approves both.
C26_ApprovalFrame ==
    [][\A p \in Procs :
        LET type == sess[p].obj.automation_type
            approves_shifts == type \in {"approve_shifts", "approve_all"}
            approves_leaves == type \in {"approve_leaves", "approve_all"}
        IN
        /\ (Executes(p) /\ (approves_shifts \/ approves_leaves))
            => LET s == sess'[p]
                   resolved_leaves == WithLink(s.created, {"leave_form"})
                   resolved_shifts == WithLink(s.created, {"schedule"})
               IN /\ s.leave_ids = IF approves_leaves
                                     THEN {i \in DOMAIN leaves : ~leaves[i].approved}
                                     ELSE {}
                  /\ s.shift_ids = IF approves_shifts
                                     THEN {i \in DOMAIN shifts : ~shifts[i].approved}
                                     ELSE {}
                  /\ BagCardinality(resolved_leaves) = Cardinality(s.leave_ids)
                  /\ BagCardinality(resolved_shifts) = Cardinality(s.shift_ids)
                  /\ \A e \in DOMAIN names :
                        /\ BagCardinality([n \in {m \in DOMAIN resolved_leaves :
                                                    m.recipient_id = e}
                                            |-> resolved_leaves[n]])
                            = Cardinality({i \in s.leave_ids : leaves[i].employee_id = e})
                        /\ BagCardinality([n \in {m \in DOMAIN resolved_shifts :
                                                    m.recipient_id = e}
                                            |-> resolved_shifts[n]])
                            = Cardinality({i \in s.shift_ids : shifts[i].employee_id = e})
                  /\ \A k \in 1 .. Len(s.summary) :
                        /\ s.summary[k].part = "Abwesenheiten genehmigt"
                            => s.summary[k].n = Cardinality(s.leave_ids)
                        /\ s.summary[k].part = "Einsaetze freigegeben"
                            => s.summary[k].n = Cardinality(s.shift_ids)
                  /\ (s.leave_ids # {})
                        => \E k \in 1 .. Len(s.summary) :
                                s.summary[k].part = "Abwesenheiten genehmigt"
                  /\ (s.shift_ids # {})
                        => \E k \in 1 .. Len(s.summary) :
                                s.summary[k].part = "Einsaetze freigegeben"
        /\ (Commits(p) /\ (approves_shifts \/ approves_leaves))
            => /\ \A i \in sess[p].leave_ids : leaves'[i].approved
               /\ \A i \in sess[p].shift_ids : shifts'[i].approved
               /\ WithLink(notifications', {"leave_form"})
                    = WithLink(notifications, {"leave_form"})
                        (+) WithLink(sess[p].created, {"leave_form"})
               /\ WithLink(notifications', {"schedule"})
                    = WithLink(notifications, {"schedule"})
                        (+) WithLink(sess[p].created, {"schedule"})
               /\ ~approves_shifts
                    => /\ shifts' = shifts
                       /\ WithLink(notifications', ShiftEndpoints)
                            = WithLink(notifications, ShiftEndpoints)
               /\ ~approves_leaves
                    => /\ leaves' = leaves
                       /\ WithLink(notifications', LeaveEndpoints)
                            = WithLink(notifications, LeaveEndpoints)]_vars

\* An approve_leaves run that loaded the pending leave was committed: the
\* leave is approved, its requester holds the resolution notification, and
\* both shifts and both shift request notices are as they were.
C26_Witness ==
    \E p \in Procs :
        /\ fin[p].rid \in DOMAIN rules
        /\ fin[p].automation_type = "approve_leaves"
        /\ fin[p].leave_ids = {1}
        /\ leaves[1].approved
        /\ \A i \in DOMAIN shifts : ~shifts[i].approved
        /\ BagCardinality(WithLink(notifications, {"leave_form"})) >= 1
        /\ WithLink(notifications, ShiftEndpoints)
                = WithLink(InitNotifications, ShiftEndpoints)

\* C27: in every committed state of the rule store, every rule with
\* is_active = true has next_run present.
C27_ActiveHasNextRun ==
    \A r \in DOMAIN rules : rules[r].is_active => rules[r].next_run # NoInstant

\* C28: a rule's last_run never decreases: every committed value of
\* last_run is greater than or equal to the value committed before it.
C28_LastRunNeverDecreases ==
    [][\A r \in DOMAIN rules \cap DOMAIN rules' :
            rules'[r].last_run >= rules[r].last_run]_vars

\* C29: the action of a once rule is completed at most once: a run that
\* starts after the rule's first successful execution (the object it loaded
\* carries that execution's last_run) never reaches the executor.
C29_OnceRunsAtMostOnce ==
    [][\A p \in Procs :
        (/\ sess[p].pc = "exec"
         /\ sess'[p].pc \in {"gen", "stamp"}
         /\ sess[p].obj.schedule_type = "once")
            => sess[p].obj.last_run = NoInstant]_vars

\* C30: the commit of a "run now" of a recurring rule leaves is_active as
\* the store holds it and stores the next_run computed from the instant
\* after the run (when that differs from the one loaded); a rule that is
\* inactive is in no due-query of the Poller.
C30_ManualKeepsActivity ==
    [][/\ (Commits("manual") /\ Recurring(sess["manual"].obj))
            => LET s == sess["manual"]
                   n == _calculate_next_run(s.obj.schedule_type, s.obj.run_time,
                                            s.obj.days_of_week, now + 1)
               IN /\ rules'[s.rid].is_active = rules[s.rid].is_active
                  /\ rules'[s.rid].last_run = now
                  /\ n # NoInstant
                  /\ n > now
                  /\ n # s.obj.next_run => rules'[s.rid].next_run = n
       /\ (sess["poller"].pc = "idle" /\ sess'["poller"].pc = "loop")
            => \A r \in sess'["poller"].queried : rules[r].is_active]_vars

\* An inactive daily or weekly rule was run by "run now" and by nothing
\* else: it carries the run's last_run and next_run and is still inactive.
C30_Witness ==
    /\ fin["poller"] = NoFin
    /\ fin["manual"].rid \in DOMAIN rules
    /\ LET rule == rules[fin["manual"].rid]
       IN /\ Recurring(rule)
          /\ ~rule.is_active
          /\ rule.last_run = fin["manual"].last_run
          /\ rule.next_run = fin["manual"].next_run
          /\ rule.next_run # fin["manual"].prev_next_run
          /\ flash.status = "deaktiviert"

=========================================================================
